---- MODULE Spec2Model ----
(***************************************************************************)
(* The cleaning pipeline of training_dataprep: CleanData (hourly mode,     *)
(* src/src/clean_data.py; daily mode, src/src_daily/clean_data.py) and its *)
(* daily caller Prepare_Dataset.run (src/src_daily/run_all.py); and the    *)
(* imputation of the per-site files, DataImputer (src/src_daily/impute.py),*)
(* with the multiprocessing pool its run() hands the files to.             *)
(*                                                                         *)
(* A frame (pandas DataFrame) is a sequence of rows; a row is a record     *)
(* [SiteId, Starting, PPM3, Date].  Timestamps are counted in grid steps   *)
(* (hours in hourly mode, days in daily mode): the rollup query of         *)
(* src/utils/query.py produces one row per whole step counted from a       *)
(* week boundary, at most one row per (site, step).                        *)
(***************************************************************************)
EXTENDS Integers, Sequences, FiniteSets, TLC

VARIABLES mode, window, min_valid, samples_per_site,
          sites_df, category_df, grouped, valid_sites,
          idx, ts_full, ts, all_dfs, result, error, pc, raw_df, csv

\* DataImputer (src/src_daily/impute.py) and the worker pool of its run()
VARIABLES config, input_dir, output_dir, files, taskqueue, worker,
          chunk_results, completed, results, log, ierror, ipc

ivars == <<config, input_dir, output_dir, files, taskqueue, worker,
           chunk_results, completed, results, log, ierror, ipc>>

cvars == <<mode, window, min_valid, samples_per_site,
           sites_df, category_df, grouped, valid_sites,
           idx, ts_full, ts, all_dfs, result, error, pc, raw_df, csv>>

vars == <<mode, window, min_valid, samples_per_site,
          sites_df, category_df, grouped, valid_sites,
          idx, ts_full, ts, all_dfs, result, error, pc, raw_df, csv, ivars>>

----------------------------------------------------------------------------
(* Values *)

\* pandas' missing value (NaN / None) in an integer-valued column
NaN == -999

\* the fixed cap of the daily zero rule: `df[zero_counts <= 3]`
ZeroCap == 3

\* the daily minimum-row floor: `if len(ts) < 40`
MinRows == 40

isna(v) == v = NaN

notna(v) == v # NaN

\* a raw measurement row as the rollup query delivers it (no Date column yet)
RawRow(site, t, v) == [SiteId |-> site, Starting |-> t, PPM3 |-> v, Date |-> NaN]

\* the row a left join / reindex yields for a grid timestamp with no match
GridOnlyRow(t) == [SiteId |-> NaN, Starting |-> t, PPM3 |-> NaN, Date |-> NaN]

----------------------------------------------------------------------------
(* Sequence helpers *)

RECURSIVE SumSeq(_)
SumSeq(xs) == IF xs = <<>> THEN 0 ELSE Head(xs) + SumSeq(Tail(xs))

RECURSIVE FlattenRange(_, _, _)
FlattenRange(frames, lo, hi) ==
    IF lo > hi THEN <<>>
    ELSE IF lo = hi THEN frames[lo]
    ELSE LET mid == (lo + hi) \div 2
         IN FlattenRange(frames, lo, mid) \o FlattenRange(frames, mid + 1, hi)

\* pd.concat(frames, ignore_index=True) on a non-empty list of frames
Flatten(frames) == FlattenRange(frames, 1, Len(frames))

Reverse(xs) == [i \in 1..Len(xs) |-> xs[Len(xs) + 1 - i]]

SetMin(S) == CHOOSE x \in S : \A y \in S : x <= y

SetMax(S) == 0 - SetMin({0 - x : x \in S})

RECURSIVE SortedSeqOf(_)
\* the elements of a finite set of integers in ascending order
SortedSeqOf(S) ==
    IF S = {} THEN <<>> ELSE <<SetMin(S)>> \o SortedSeqOf(S \ {SetMin(S)})

\* df[mask]: the rows whose position is selected by a boolean mask
Mask(df, keep) ==
    LET ks == SelectSeq([i \in 1..Len(df) |-> i], LAMBDA i : keep[i])
    IN [k \in 1..Len(ks) |-> df[ks[k]]]

----------------------------------------------------------------------------
(* pandas operations used by CleanData *)

\* a filter that keeps PPM3 >= 0 only, and so drops the missing values too
KeepObservedNonNegative(df) ==
    SelectSeq(df, LAMBDA r : notna(r.PPM3) /\ r.PPM3 >= 0)

\* load_data: keep rows with PPM3 >= 0 or PPM3 missing (NaN >= 0 is False)
KeepNonNegative(df) ==
    SelectSeq(df, LAMBDA r : (notna(r.PPM3) /\ r.PPM3 >= 0) \/ isna(r.PPM3))

\* category_df[category_df["SiteId"] == site_id]
SubsetOfSite(df, site_id) == SelectSeq(df, LAMBDA r : r.SiteId = site_id)

RECURSIVE FilteredRows(_, _)
\* load_data's loop over sites_df["Id"]: the non-empty per-site subsets
FilteredRows(ids, df) ==
    IF ids = <<>> THEN <<>>
    ELSE (IF Len(SubsetOfSite(df, Head(ids))) > 0
          THEN <<SubsetOfSite(df, Head(ids))>> ELSE <<>>)
         \o FilteredRows(Tail(ids), df)

\* result_df.groupby(["SiteId"]): group key -> rows of the group, in frame order
GroupBy(df) ==
    [g \in {df[i].SiteId : i \in 1..Len(df)} |-> SubsetOfSite(df, g)]

\* list(grouped.groups.keys()): the group keys, ascending (groupby sorts them)
\* group keys in descending order
GroupKeysDescending(g) == Reverse(SortedSeqOf(DOMAIN g))

GroupKeys(g) == SortedSeqOf(DOMAIN g)

\* the rows of df at timestamp t, in frame order
RowsAt(df, t) == SelectSeq(df, LAMBDA r : r.Starting = t)

\* df.sort_values(by="Starting"): ascending by timestamp, rows with equal
\* timestamps in their frame order
sort_values(df) ==
    IF df = <<>> THEN <<>>
    ELSE LET keys == {df[i].Starting : i \in 1..Len(df)}
             lo   == SetMin(keys)
             hi   == SetMax(keys)
             ks   == SelectSeq([i \in 1..(hi - lo + 1) |-> lo + (i - 1)],
                               LAMBDA t : t \in keys)
         IN Flatten([k \in 1..Len(ks) |-> RowsAt(df, ks[k])])

RECURSIVE SufficientSites(_, _, _)
\* load_data lines 29-35: groups with more than samples_per_site rows
SufficientSites(keys, g, threshold) ==
    IF keys = <<>> THEN <<>>
    ELSE (IF Len(sort_values(g[Head(keys)])) > threshold
          THEN <<Head(keys)>> ELSE <<>>)
         \o SufficientSites(Tail(keys), g, threshold)

\* a date_range that stops one step short of `end`
date_range_open(start, end) ==
    IF start >= end THEN <<>> ELSE [i \in 1..(end - start) |-> start + (i - 1)]

\* pd.date_range(start, end, freq=step): start, start+step, ... while <= end
date_range(start, end) ==
    IF start > end THEN <<>> ELSE [i \in 1..(end - start + 1) |-> start + (i - 1)]

\* a join on row position instead of on the timestamp
merge_by_position(grid, df) ==
    [i \in 1..Len(grid) |->
        IF i <= Len(df) THEN [df[i] EXCEPT !.Starting = grid[i]]
        ELSE GridOnlyRow(grid[i])]

\* grid.merge(df, on="Starting", how="left"): every grid timestamp, with each
\* matching row of df, or one all-missing row when none matches
merge_left(grid, df) ==
    Flatten([i \in 1..Len(grid) |->
               LET hit == RowsAt(df, grid[i])
               IN IF hit = <<>> THEN <<GridOnlyRow(grid[i])>> ELSE hit])

IndexOf(df) == {df[i].Starting : i \in 1..Len(df)}

\* station_fill: the site's rows on the full grid [min(Starting), max(Starting)]
station_fill(g, group) ==
    LET df    == sort_values(g[group])
        start == SetMin(IndexOf(df))
        end   == SetMax(IndexOf(df))
    IN merge_left(date_range(start, end), df)

\* df.reindex(full_idx) on a frame with a unique index
reindex(df, full_idx) ==
    [i \in 1..Len(full_idx) |->
        LET hit == RowsAt(df, full_idx[i])
        IN IF hit = <<>> THEN GridOnlyRow(full_idx[i]) ELSE hit[1]]

\* a rolling sum without min_periods=1: no value (NaN) until the window is full
rolling_sum_full_windows(xs, w) ==
    [i \in 1..Len(xs) |->
        IF i < w THEN NaN ELSE SumSeq(SubSeq(xs, i - w + 1, i))]

\* a rolling sum that looks ahead: row i and the w - 1 rows after it
rolling_sum_leading(xs, w) ==
    [i \in 1..Len(xs) |->
        SumSeq(SubSeq(xs, i, IF i + w - 1 > Len(xs) THEN Len(xs) ELSE i + w - 1))]

\* xs.rolling(window=w, center=False, min_periods=1).sum()
rolling_sum(xs, w) ==
    [i \in 1..Len(xs) |->
        SumSeq(SubSeq(xs, IF i - w + 1 < 1 THEN 1 ELSE i - w + 1, i))]

\* df[column].notna().astype(int)
has_obs(df) == [i \in 1..Len(df) |-> IF notna(df[i].PPM3) THEN 1 ELSE 0]

\* (df[column] == 0) as 0/1
zero_mask(df) == [i \in 1..Len(df) |-> IF df[i].PPM3 = 0 THEN 1 ELSE 0]

\* a density rule whose rolling window is one step too long
DensityFilterWide(df, w, mv) ==
    LET full   == reindex(df, date_range(SetMin(IndexOf(df)), SetMax(IndexOf(df))))
        counts == rolling_sum(has_obs(full), w + 2)
    IN Mask(full, [i \in 1..Len(full) |-> counts[i] >= mv])

\* a density rule that keeps a row only above min_valid
DensityFilterStrict(df, w, mv) ==
    LET full   == reindex(df, date_range(SetMin(IndexOf(df)), SetMax(IndexOf(df))))
        counts == rolling_sum(has_obs(full), w + 1)
    IN Mask(full, [i \in 1..Len(full) |-> counts[i] > mv])

\* a density rule that asks of a partial window only as many values as it
\* has rows
DensityFilterLenient(df, w, mv) ==
    LET full   == reindex(df, date_range(SetMin(IndexOf(df)), SetMax(IndexOf(df))))
        counts == rolling_sum(has_obs(full), w + 1)
    IN Mask(full, [i \in 1..Len(full) |->
                      counts[i] >= (IF i < mv THEN i ELSE mv)])

\* a density rule that never drops a row whose own PPM3 is present
DensityFilterKeepsObserved(df, w, mv) ==
    LET full   == reindex(df, date_range(SetMin(IndexOf(df)), SetMax(IndexOf(df))))
        counts == rolling_sum(has_obs(full), w + 1)
    IN Mask(full, [i \in 1..Len(full) |->
                      counts[i] >= mv \/ notna(full[i].PPM3)])

\* a density rule that keeps a row only when its count equals min_valid
DensityFilterExact(df, w, mv) ==
    LET full   == reindex(df, date_range(SetMin(IndexOf(df)), SetMax(IndexOf(df))))
        counts == rolling_sum(has_obs(full), w + 1)
    IN Mask(full, [i \in 1..Len(full) |-> counts[i] = mv])

\* steps 1-4 of remove_unrecoverable_nans (both modes): the density rule
DensityFilter(df, w, mv) ==
    LET full   == reindex(df, date_range(SetMin(IndexOf(df)), SetMax(IndexOf(df))))
        counts == rolling_sum(has_obs(full), w + 1)
    IN Mask(full, [i \in 1..Len(full) |-> counts[i] >= mv])

\* a zero rule that tolerates one more zero
ZeroFilterCapFour(df, w) ==
    LET zero_counts == rolling_sum(zero_mask(df), w + 1)
    IN Mask(df, [i \in 1..Len(df) |-> zero_counts[i] <= ZeroCap + 1])

\* step 5 of the daily remove_unrecoverable_nans: the zero rule, a rolling
\* count over the rows the density rule kept
ZeroFilter(df, w) ==
    LET zero_counts == rolling_sum(zero_mask(df), w + 1)
    IN Mask(df, [i \in 1..Len(df) |-> zero_counts[i] <= ZeroCap])

\* the daily zero rule applied in both modes
remove_with_zero_rule(m, df, w, mv) == ZeroFilter(DensityFilter(df, w, mv), w)

remove_unrecoverable_nans(m, df, w, mv) ==
    IF m = "daily" THEN ZeroFilter(DensityFilter(df, w, mv), w)
    ELSE DensityFilter(df, w, mv)

\* ts["SiteId"].dropna().unique(): the distinct non-missing identifiers, in order
SiteIdsOf(df) ==
    LET present == SelectSeq([i \in 1..Len(df) |-> df[i].SiteId], notna)
        firsts  == SelectSeq([i \in 1..Len(present) |-> i],
                     LAMBDA i : \A j \in 1..(i - 1) : present[j] # present[i])
    IN [k \in 1..Len(firsts) |-> present[firsts[k]]]

\* a repair that stamps Date but leaves the SiteId of grid-only rows missing
RepairWithoutFill(df) ==
    [i \in 1..Len(df) |->
        [SiteId   |-> df[i].SiteId,
         Starting |-> df[i].Starting,
         PPM3     |-> df[i].PPM3,
         Date     |-> df[i].Starting]]

\* clean_station: fillna(site_id) on SiteId, Date stamped from the index
Repair(df) ==
    LET site_id == SiteIdsOf(df)[1]
    IN [i \in 1..Len(df) |->
          [SiteId   |-> IF isna(df[i].SiteId) THEN site_id ELSE df[i].SiteId,
           Starting |-> df[i].Starting,
           PPM3     |-> df[i].PPM3,
           Date     |-> df[i].Starting]]

----------------------------------------------------------------------------
(* Return values and exceptions *)

Unset == [kind |-> "unset", rows |-> <<>>]

NoneValue == [kind |-> "None", rows |-> <<>>]

Frame(rows) == [kind |-> "frame", rows |-> rows]

Raise(exc) ==
    /\ error' = exc
    /\ pc' = "raised"

----------------------------------------------------------------------------
(* CleanData.run = load_data ; clean_station, then the caller's use of it *)

\* a filter that drops the negative rows from the caller's frame itself
DropInPlace(caller, kept) == kept

\* lines 15-17: self.category_df[...] builds a new frame and the attribute
\* is bound to it; the frame the caller passed to run() keeps its rows
CallerFrame(caller, kept) == caller

\* CleanData.load_data
LoadData ==
    /\ pc = "load"
    /\ LET kept          == KeepNonNegative(category_df)
           filtered_rows == FilteredRows(sites_df, kept)
           g             == GroupBy(Flatten(filtered_rows))
           sufficient    == SufficientSites(GroupKeys(g), g, samples_per_site)
       IN /\ category_df' = kept
          /\ raw_df' = CallerFrame(raw_df, kept)
          /\ IF filtered_rows = <<>>
             THEN \* pd.concat([]) raises ValueError (line 24)
                  /\ Raise("ValueError")
                  /\ UNCHANGED <<grouped, valid_sites>>
             ELSE IF sufficient = <<>>
             THEN \* pd.DataFrame([])["SiteId"] raises KeyError (line 39)
                  /\ Raise("KeyError")
                  /\ grouped' = g
                  /\ UNCHANGED valid_sites
             ELSE /\ grouped' = g
                  /\ valid_sites' = sufficient
                  /\ pc' = "fill"
                  /\ UNCHANGED error
    /\ UNCHANGED <<mode, window, min_valid, samples_per_site, sites_df,
                   idx, ts_full, ts, all_dfs, result, csv, ivars>>

\* clean_station, loop body: ts = self.station_fill(group)
StationFill ==
    /\ pc = "fill"
    /\ idx <= Len(valid_sites)
    /\ ts_full' = station_fill(grouped, valid_sites[idx])
    /\ pc' = "filter"
    /\ UNCHANGED <<mode, window, min_valid, samples_per_site, sites_df,
                   category_df, grouped, valid_sites, idx, ts, all_dfs,
                   result, error, raw_df, csv, ivars>>

\* clean_station, loop body: ts = self.remove_unrecoverable_nans(ts, ...)
RemoveUnrecoverableNans ==
    /\ pc = "filter"
    /\ ts' = remove_unrecoverable_nans(mode, ts_full, window, min_valid)
    /\ pc' = "collect"
    /\ UNCHANGED <<mode, window, min_valid, samples_per_site, sites_df,
                   category_df, grouped, valid_sites, idx, ts_full, all_dfs,
                   result, error, raw_df, csv, ivars>>

\* a floor that also skips a series of exactly MinRows rows
SkippedAtFloor(m, df) == Len(df) = 0 \/ (m = "daily" /\ Len(df) <= MinRows)

\* whether clean_station skips the filtered series of a site
Skipped(m, df) == Len(df) = 0 \/ (m = "daily" /\ Len(df) < MinRows)

\* clean_station, rest of the loop body: skip, or repair and append
Collect ==
    /\ pc = "collect"
    /\ IF Skipped(mode, ts)
       THEN /\ all_dfs' = all_dfs
            /\ idx' = idx + 1
            /\ pc' = IF idx + 1 > Len(valid_sites) THEN "concat" ELSE "fill"
            /\ UNCHANGED error
       ELSE IF SiteIdsOf(ts) = <<>>
       THEN \* unique()[0] on an empty array raises IndexError
            /\ Raise("IndexError")
            /\ UNCHANGED <<all_dfs, idx>>
       ELSE /\ all_dfs' = Append(all_dfs, Repair(ts))
            /\ idx' = idx + 1
            /\ pc' = IF idx + 1 > Len(valid_sites) THEN "concat" ELSE "fill"
            /\ UNCHANGED error
    /\ UNCHANGED <<mode, window, min_valid, samples_per_site, sites_df,
                   category_df, grouped, valid_sites, ts_full, ts,
                   result, raw_df, csv, ivars>>

\* clean_station after the loop: concatenate and return
Concat ==
    /\ pc = "concat"
    /\ IF all_dfs = <<>>
       THEN IF mode = "daily"
            THEN \* daily lines 111-113: return None
                 /\ result' = NoneValue
                 /\ pc' = "returned"
                 /\ UNCHANGED error
            ELSE \* hourly line 96: pd.concat([]) raises ValueError
                 /\ Raise("ValueError")
                 /\ UNCHANGED result
       ELSE /\ result' = Frame(Flatten(all_dfs))
            /\ pc' = "returned"
            /\ UNCHANGED error
    /\ UNCHANGED <<mode, window, min_valid, samples_per_site, sites_df,
                   category_df, grouped, valid_sites, idx, ts_full, ts,
                   all_dfs, raw_df, csv, ivars>>

\* Prepare_Dataset.run (daily), lines 114-126: drop columns of what
\* CleanData.run returned and write it
PrepareDatasetRun ==
    /\ pc = "returned"
    /\ mode = "daily"
    /\ IF result.kind = "None"
       THEN \* None.drop(...) raises AttributeError (line 122)
            /\ Raise("AttributeError")
            /\ UNCHANGED csv
       ELSE /\ csv' = result.rows
            /\ pc' = "written"
            /\ UNCHANGED error
    /\ UNCHANGED <<mode, window, min_valid, samples_per_site, sites_df,
                   category_df, grouped, valid_sites, idx, ts_full, ts,
                   all_dfs, result, raw_df, ivars>>

Next ==
    \/ LoadData
    \/ StationFill
    \/ RemoveUnrecoverableNans
    \/ Collect
    \/ Concat
    \/ PrepareDatasetRun

----------------------------------------------------------------------------
(* Inputs *)

Symbols == {"gap", "nan", "neg", "zero", "pos"}

ValueOf(sym) ==
    CASE sym = "nan"  -> NaN
      [] sym = "neg"  -> -1
      [] sym = "zero" -> 0
      [] sym = "pos"  -> 1

\* the raw rows of one site: one row per non-gap position of the pattern
SeriesRows(site, pat, t0) ==
    LET ks == SelectSeq([i \in 1..Len(pat) |-> i], LAMBDA i : pat[i] # "gap")
    IN [k \in 1..Len(ks) |-> RawRow(site, t0 + ks[k] - 1, ValueOf(pat[ks[k]]))]

Patterns(S, n) == UNION {[1..k -> S] : k \in 0..n}

Run(sym, n) == [i \in 1..n |-> sym]

\* no DataImputer has been constructed
NoImputer ==
    /\ config = [k \in {} |-> 0]
    /\ input_dir = <<>>
    /\ output_dir = <<>>
    /\ files = <<>>
    /\ taskqueue = <<>>
    /\ worker = <<>>
    /\ chunk_results = <<>>
    /\ completed = <<>>
    /\ results = <<>>
    /\ log = <<>>
    /\ ierror = "none"
    /\ ipc = "absent"

\* the state after CleanData(window, min_valid, samples_per_site) is
\* constructed and run(sites_df, category_df) has stored its arguments
Start(m, w, mv, sps, ids, table) ==
    /\ mode = m
    /\ window = w
    /\ min_valid = mv
    /\ samples_per_site = sps
    /\ sites_df = ids
    /\ category_df = table
    /\ raw_df = table
    /\ grouped = <<>>
    /\ valid_sites = <<>>
    /\ idx = 1
    /\ ts_full = <<>>
    /\ ts = <<>>
    /\ all_dfs = <<>>
    /\ result = Unset
    /\ error = "none"
    /\ pc = "load"
    /\ csv = <<>>
    /\ NoImputer

\* the raw table of the two sites; reversed, its rows arrive latest first
TableOf(p1, p2, rev) ==
    LET table == SeriesRows(1, p1, 1) \o SeriesRows(2, p2, 2)
    IN IF rev THEN Reverse(table) ELSE table

\* bounds of the pipeline specification
MaxHead == 2

MaxMinValid == 2

PipelineWindow == 2

Thresholds == {0, 1}

Tails == {0, MinRows - 1}

\* the sites table (its Id column) and whether the raw rows arrive reversed
Layouts == {<<<<1, 2>>, FALSE>>, <<<<2, 1>>, TRUE>>, <<<<2>>, FALSE>>}

Init ==
    \E m \in {"hourly", "daily"}, mv \in 0..MaxMinValid, sps \in Thresholds,
       lay \in Layouts, p1 \in Patterns(Symbols, MaxHead),
       p2 \in Patterns({"pos"}, 1), n \in Tails :
       Start(m, PipelineWindow, mv, sps, lay[1],
             TableOf(p1 \o Run("pos", n), p2 \o Run("pos", n), lay[2]))

Spec == Init /\ [][Next]_vars

----------------------------------------------------------------------------
(* One site up to the gap-validity filter: station_fill and                *)
(* remove_unrecoverable_nans on every short series and on run-shaped ones  *)

NextGrid ==
    \/ LoadData
    \/ StationFill
    \/ RemoveUnrecoverableNans

GridSymbols == {"gap", "nan", "zero", "pos"}

\* bounds of the grid specification
MaxLen == 5

MaxGridMinValid == 4

MaxRun == 6

GridWindows == {1, ZeroCap}

\* a site's series begins and ends with a raw row
IsSeries(p) == p # <<>> /\ p[1] # "gap" /\ p[Len(p)] # "gap"

ShortSeries == {p \in Patterns(GridSymbols, MaxLen) : IsSeries(p)}

\* a run of zeros, a gap, a run of positive readings, a run of zeros
RunSeries ==
    {p \in {Run("zero", a) \o Run("gap", g) \o Run("pos", b) \o Run("zero", c) :
              a \in 0..MaxRun, g \in 0..MaxRun, b \in 0..MaxRun, c \in 0..MaxRun} :
        IsSeries(p)}

InitGrid ==
    \E m \in {"hourly", "daily"}, w \in GridWindows, mv \in 0..MaxGridMinValid,
       p \in ShortSeries \cup RunSeries :
       Start(m, w, mv, 0, <<1>>, SeriesRows(1, p, 1))

SpecGrid == InitGrid /\ [][NextGrid]_vars

----------------------------------------------------------------------------
(* Properties of station_fill and remove_unrecoverable_nans.  They count   *)
(* by timestamp on the grid, where the code counts by row position.        *)

\* the site being processed by clean_station's loop body
CurrentSite == valid_sites[idx]

\* station_fill has returned the grid of the current site
Filled == pc \in {"filter", "collect"}

\* remove_unrecoverable_nans has returned the retained series of the current site
Filtered == pc = "collect"

GridRowsWithin(t, w) ==
    {j \in 1..Len(ts_full) :
        ts_full[j].Starting >= t - w /\ ts_full[j].Starting <= t}

\* non-missing PPM3 values among grid step t and the `window` steps before it
ObservedIn(t) ==
    Cardinality({j \in GridRowsWithin(t, window) : notna(ts_full[j].PPM3)})

\* exact-zero PPM3 values among grid step t and the `window` steps before it
ZerosIn(t) ==
    Cardinality({j \in GridRowsWithin(t, window) : ts_full[j].PPM3 = 0})

IsRetained(t) == \E i \in 1..Len(ts) : ts[i].Starting = t

\* C1: in both modes every row returned by remove_unrecoverable_nans is a grid
\* row with at least min_valid non-missing PPM3 values among itself and the
\* up to `window` grid steps before it
C1_RetainedRowsAreDense ==
    Filtered =>
        \A i \in 1..Len(ts) :
            /\ \E j \in 1..Len(ts_full) : ts_full[j] = ts[i]
            /\ ObservedIn(ts[i].Starting) >= min_valid

\* C1 witness: daily mode, min_valid >= 2, a missing row kept, a row dropped
C1_Witness ==
    /\ Filtered
    /\ mode = "daily"
    /\ min_valid >= 2
    /\ Len(ts) < Len(ts_full)
    /\ \E i \in 1..Len(ts) : isna(ts[i].PPM3)

\* C2: in daily mode every dropped grid row has fewer than min_valid
\* non-missing values in its trailing grid window, or more than 3 exact zeros
\* among the same window+1 consecutive grid steps
C2_DroppedForDensityOrZeros ==
    (Filtered /\ mode = "daily") =>
        \A j \in 1..Len(ts_full) :
            ~IsRetained(ts_full[j].Starting) =>
                \/ ObservedIn(ts_full[j].Starting) < min_valid
                \/ ZerosIn(ts_full[j].Starting) > ZeroCap

\* C3: in hourly mode the retained series is exactly the grid rows whose
\* trailing window holds at least min_valid non-missing values, in grid order;
\* zeros play no part
C3_HourlyRetainedIffDense ==
    (Filtered /\ mode = "hourly") =>
        ts = SelectSeq(ts_full, LAMBDA r : ObservedIn(r.Starting) >= min_valid)

\* C3 witness: hourly mode, a kept row with more than 3 zeros in its window,
\* and a dropped row
C3_Witness ==
    /\ Filtered
    /\ mode = "hourly"
    /\ min_valid >= 1
    /\ Len(ts) < Len(ts_full)
    /\ \E i \in 1..Len(ts) : ZerosIn(ts[i].Starting) > ZeroCap

\* the rows station_fill reads: the current site's group
GroupRows == grouped[CurrentSite]

GroupTimes == {GroupRows[i].Starting : i \in 1..Len(GroupRows)}

\* C6: the grid of station_fill has strictly increasing timestamps one step
\* apart, holds the earliest and the latest timestamp of the site's rows, and
\* has (max - min)/step + 1 rows
C6_GridIsRegular ==
    Filled =>
        /\ Len(ts_full) = SetMax(GroupTimes) - SetMin(GroupTimes) + 1
        /\ \A i \in 1..(Len(ts_full) - 1) :
              ts_full[i + 1].Starting = ts_full[i].Starting + 1
        /\ \E i \in 1..Len(ts_full) : ts_full[i].Starting = SetMin(GroupTimes)
        /\ \E i \in 1..Len(ts_full) : ts_full[i].Starting = SetMax(GroupTimes)

\* C6 witness: a grid over a series with gaps, longer than the raw rows
C6_Witness ==
    /\ pc = "filter"
    /\ Len(GroupRows) >= 3
    /\ Len(ts_full) >= Len(GroupRows) + 2

\* C7: the grid rows with a missing PPM3 number the grid length minus the
\* site's rows with a non-missing PPM3, and each such row is exactly one grid row
C7_GapCount ==
    Filled =>
        /\ Cardinality({j \in 1..Len(ts_full) : isna(ts_full[j].PPM3)})
             = Len(ts_full)
               - Cardinality({i \in 1..Len(GroupRows) : notna(GroupRows[i].PPM3)})
        /\ \A i \in 1..Len(GroupRows) :
              notna(GroupRows[i].PPM3) =>
                  Cardinality({j \in 1..Len(ts_full) : ts_full[j] = GroupRows[i]}) = 1

\* C7 witness: a grid with a raw row without a value, a gap and observed rows
C7_Witness ==
    /\ pc = "filter"
    /\ \E i \in 1..Len(GroupRows) : isna(GroupRows[i].PPM3)
    /\ \E j \in 1..Len(ts_full) : isna(ts_full[j].SiteId)
    /\ Cardinality({i \in 1..Len(GroupRows) : notna(GroupRows[i].PPM3)}) >= 2

----------------------------------------------------------------------------
(* The hourly scenarios of the specification's section 8 *)

NextHourly ==
    \/ LoadData
    \/ StationFill
    \/ RemoveUnrecoverableNans
    \/ Collect
    \/ Concat

\* a series of n hourly slots, observed except at the slots of `missing`,
\* which hold no raw row (kind "gap") or a raw row without a value ("nan")
SeriesWithMissing(n, missing, kind) ==
    [i \in 1..n |-> IF i \in missing THEN kind ELSE "pos"]

\* the observed slots among slot i and the w slots before it
ObservedNeighbours(n, missing, i, w) ==
    Cardinality({j \in 1..n : j >= i - w /\ j <= i /\ j \notin missing})

\* Scenario A: 49 slots, 5 scattered missing hours, window 24, min_valid 6
MissingHoursA == {3, 7, 8, 9, 10, 11, 20, 30, 31, 40, 48}

InitScenarioA ==
    \E missing \in SUBSET MissingHoursA, kind \in {"gap", "nan"} :
       /\ Cardinality(missing) = 5
       /\ \A i \in missing : ObservedNeighbours(49, missing, i, 24) >= 6
       /\ Start("hourly", 24, 6, 0, <<1>>,
                SeriesRows(1, SeriesWithMissing(49, missing, kind), 1))

SpecScenarioA == InitScenarioA /\ [][NextHourly]_vars

\* Scenario B: 1000 hours with one 30-hour gap, window 24, min_valid 6
GapStartsB ==
    {2, 3, 4, 5, 6, 7, 8, 20, 24, 25, 26, 30, 31, 54, 55, 100, 250, 500, 750,
     900, 940, 945, 946, 947, 960, 965, 968, 969, 970}

InitScenarioB ==
    \E g \in GapStartsB :
       Start("hourly", 24, 6, 0, <<1>>,
             SeriesRows(1, SeriesWithMissing(1000, g..(g + 29), "gap"), 1))

SpecScenarioB == InitScenarioB /\ [][NextHourly]_vars

----------------------------------------------------------------------------
(* Properties of the scenarios *)

\* C4 as stated: station_fill followed by remove_unrecoverable_nans retains
\* all 49 rows of Scenario A
C4_AllRowsRetained ==
    Filtered => (Len(ts_full) = 49 /\ ts = ts_full)

\* C4 as amended: in Scenario A the grid has 49 rows and every row is retained
\* except the first min_valid - 1 = 5, whose partial windows hold fewer than
\* 6 values: 44 rows are retained
C4_AllButFirstRowsRetained ==
    Filtered =>
        /\ Len(ts_full) = 49
        /\ Len(ts) = 44
        /\ ts = SubSeq(ts_full, min_valid, Len(ts_full))

\* C4 witness: the filter has run on a Scenario A series and kept a missing hour
C4_Witness ==
    /\ Filtered
    /\ Len(ts) = 44
    /\ \E i \in 1..Len(ts) : isna(ts[i].PPM3) /\ isna(ts[i].SiteId)

\* the timestamps of the grid rows without a value: in Scenario B, the gap
GapTimes == {ts_full[j].Starting : j \in {k \in 1..Len(ts_full) : isna(ts_full[k].PPM3)}}

\* the row's 24-step lookback (itself and the 24 steps before it) lies in the gap
LookbackInGap(t) == \A u \in (t - 24)..t : u \in GapTimes

\* C5 as stated: in Scenario B the rows whose 24-step lookback lies entirely
\* inside the gap are dropped, and every row before the gap and every row at
\* least 24 steps past the end of the gap is retained
C5_GapScenario ==
    Filtered =>
        LET kept == IndexOf(ts)
        IN \A j \in 1..Len(ts_full) :
              LET t == ts_full[j].Starting
              IN /\ LookbackInGap(t) => t \notin kept
                 /\ t < SetMin(GapTimes) => t \in kept
                 /\ t >= SetMax(GapTimes) + 24 => t \in kept

\* C5 as amended: as stated, except that the first min_valid - 1 = 5 rows of
\* the series are not among the rows retained before the gap
C5_GapScenarioAfterFirstRows ==
    Filtered =>
        LET kept == IndexOf(ts)
        IN /\ Len(ts_full) = 1000
           /\ SetMax(GapTimes) - SetMin(GapTimes) + 1 = 30
           /\ \A j \in 1..Len(ts_full) :
                 LET t == ts_full[j].Starting
                 IN /\ LookbackInGap(t) => t \notin kept
                    /\ (t < SetMin(GapTimes) /\ j >= min_valid) => t \in kept
                    /\ t >= SetMax(GapTimes) + 24 => t \in kept

\* C5 witness: a gap far from the start, rows kept before it, rows dropped in it
C5_Witness ==
    /\ Filtered
    /\ SetMin(GapTimes) > 30
    /\ \E i \in 1..Len(ts) : ts[i].Starting < SetMin(GapTimes)
    /\ \E j \in 1..Len(ts_full) :
          LookbackInGap(ts_full[j].Starting) /\ ~IsRetained(ts_full[j].Starting)

----------------------------------------------------------------------------
(* Properties of the whole run *)

RangeOf(xs) == {xs[i] : i \in 1..Len(xs)}

\* the rows a site has contributed to the frames collected so far
Contributed(site) == SubsetOfSite(Flatten(all_dfs), site)

\* the run is over and no site has contributed a row
ZeroSitesSurvived ==
    /\ pc \in {"raised", "returned", "written"}
    /\ all_dfs = <<>>

\* C8: when zero sites survive cleaning, CleanData.run and Prepare_Dataset.run
\* end without an exception
C8_EmptyResultReported == ZeroSitesSurvived => error = "none"

\* C9: a site with no more than samples_per_site rows (after the negative rows
\* are removed) is not resampled, contributes no row, and its exclusion does
\* not end the run with an exception
C9_InsufficientSiteExcluded ==
    pc # "load" =>
        \A s \in DOMAIN grouped :
            Len(grouped[s]) <= samples_per_site =>
                /\ s \notin RangeOf(valid_sites)
                /\ Contributed(s) = <<>>
                /\ error # "KeyError"

\* the loop of clean_station is over
LoopDone ==
    \/ pc \in {"concat", "returned", "written"}
    \/ (pc = "raised" /\ valid_sites # <<>> /\ idx > Len(valid_sites))

----------------------------------------------------------------------------
(* The cleaned dataset *)

\* the valid sites whose filtered series clean_station does not skip, in
\* the order the loop visits them
Survivors ==
    SelectSeq(valid_sites,
              LAMBDA s : ~Skipped(mode, remove_unrecoverable_nans(
                             mode, station_fill(grouped, s), window, min_valid)))

\* the raw rows of a site at a timestamp
RawRowsOf(site, t) ==
    SelectSeq(raw_df, LAMBDA r : r.SiteId = site /\ r.Starting = t)

\* C11: every row of the dataset clean_station returns carries the
\* identifier of the site whose grid it came from, never a missing one, and
\* a Date equal to its grid timestamp
C11_RowsCarrySiteAndDate ==
    result.kind = "frame" =>
        LET survivors == Survivors
        IN /\ Len(all_dfs) = Len(survivors)
           /\ result.rows = Flatten(all_dfs)
           /\ \A k \in 1..Len(all_dfs) :
                 LET site == survivors[k]
                     grid == IndexOf(station_fill(grouped, site))
                     df   == all_dfs[k]
                 IN \A i \in 1..Len(df) :
                       /\ notna(df[i].SiteId)
                       /\ df[i].SiteId = site
                       /\ df[i].Date = df[i].Starting
                       /\ df[i].Starting \in grid

\* C11 witness: the returned dataset holds a grid-only row (a timestamp with
\* no raw row of its site), whose SiteId was filled in
C11_Witness ==
    /\ result.kind = "frame"
    /\ \E i \in 1..Len(result.rows) :
          /\ RawRowsOf(result.rows[i].SiteId, result.rows[i].Date) = <<>>
          /\ isna(result.rows[i].PPM3)

\* C12: the rows of the returned dataset are in ascending SiteId order, each
\* site one contiguous block, and in ascending timestamp order within a
\* site (stated on adjacent rows; the order is transitive), whatever the
\* order of the sites table and of the raw rows
C12_AscendingSiteBlocks ==
    result.kind = "frame" =>
        LET rows == result.rows
        IN \A i \in 1..(Len(rows) - 1) :
              \/ rows[i].SiteId < rows[i + 1].SiteId
              \/ /\ rows[i].SiteId = rows[i + 1].SiteId
                 /\ rows[i].Date < rows[i + 1].Date

\* C12 witness: two sites contributed although the sites table lists them in
\* descending order and the raw rows arrive latest first
C12_Witness ==
    /\ result.kind = "frame"
    /\ Len(all_dfs) = 2
    /\ sites_df = <<2, 1>>
    /\ raw_df[1].Starting > raw_df[Len(raw_df)].Starting

----------------------------------------------------------------------------
(* DataImputer (src/src_daily/impute.py): file names *)

\* A file name is a sequence of one-character strings.
Chars(str) ==
    CASE str = ".csv"         -> <<".", "c", "s", "v">>
      [] str = "_imputed.csv" -> <<"_", "i", "m", "p", "u", "t", "e", "d",
                                   ".", "c", "s", "v">>
      [] str = "_imputed"     -> <<"_", "i", "m", "p", "u", "t", "e", "d">>
      [] OTHER                -> <<str>>

\* the code point of a character (str comparison orders by code point)
Ord(c) ==
    CASE c = "." -> 46  [] c = "_" -> 95  [] c = "a" -> 97  [] c = "b" -> 98
      [] c = "c" -> 99  [] c = "d" -> 100 [] c = "e" -> 101 [] c = "f" -> 102
      [] c = "i" -> 105 [] c = "m" -> 109 [] c = "p" -> 112 [] c = "s" -> 115
      [] c = "t" -> 116 [] c = "u" -> 117 [] c = "v" -> 118

\* s < t for two names, as sorted() compares the paths of one directory
RECURSIVE NameLess(_, _)

NameLess(s, t) ==
    IF t = <<>> THEN FALSE
    ELSE IF s = <<>> THEN TRUE
    ELSE IF s[1] # t[1] THEN Ord(s[1]) < Ord(t[1])
    ELSE NameLess(Tail(s), Tail(t))

\* sorted(names)
RECURSIVE SortedNames(_)

SortedNames(S) ==
    IF S = {} THEN <<>>
    ELSE LET least == CHOOSE x \in S : \A y \in S \ {x} : NameLess(x, y)
         IN <<least>> \o SortedNames(S \ {least})

\* str.replace(old, new): every non-overlapping occurrence, left to right
RECURSIVE replace(_, _, _)

replace(str, old, new) ==
    IF Len(str) < Len(old) THEN str
    ELSE IF SubSeq(str, 1, Len(old)) = old
         THEN new \o replace(SubSeq(str, Len(old) + 1, Len(str)), old, new)
         ELSE <<str[1]>> \o replace(Tail(str), old, new)

\* an output name built from the part of the name before its first dot
OutNameFromStem(name) ==
    LET dots == {i \in 1..Len(name) : name[i] = "."}
        cut  == IF dots = {} THEN Len(name) ELSE SetMin(dots) - 1
    IN SubSeq(name, 1, cut) \o Chars("_imputed.csv")

\* process_single_file: fn_path.name.replace(".csv", "_imputed.csv")
OutName(name) == replace(name, Chars(".csv"), Chars("_imputed.csv"))

\* whether glob("*.csv") matches a name
MatchesCsv(name) ==
    /\ Len(name) >= 4
    /\ SubSeq(name, Len(name) - 3, Len(name)) = Chars(".csv")

----------------------------------------------------------------------------
(* DataImputer: tables and the imputation of one file *)

\* A table (a csv file, a DataFrame) is [columns, rows]: the column names in
\* order and the rows, each a function from column name to value.  Dates are
\* day numbers.
Table(columns, rows) == [columns |-> columns, rows |-> rows]

HasColumn(df, c) == \E i \in 1..Len(df.columns) : df.columns[i] = c

Column(df, c) == [i \in 1..Len(df.rows) |-> df.rows[i][c]]

\* df[c] = values: the column is overwritten in place or appended
Assign(df, c, values) ==
    Table(IF HasColumn(df, c) THEN df.columns ELSE Append(df.columns, c),
          [i \in 1..Len(df.rows) |->
              [k \in (DOMAIN df.rows[i]) \cup {c} |->
                  IF k = c THEN values[i] ELSE df.rows[i][k]]])

\* sort_values("Date"): the rows in ascending Date order, ties in file order
SortByDate(rows) ==
    LET n    == Len(rows)
        rank == [i \in 1..n |->
                   Cardinality({j \in 1..n :
                       \/ rows[j]["Date"] < rows[i]["Date"]
                       \/ (rows[j]["Date"] = rows[i]["Date"] /\ j < i)}) + 1]
    IN [k \in 1..n |-> rows[CHOOSE i \in 1..n : rank[i] = k]]

\* load_station: read_csv(parse_dates=["Date"]).sort_values("Date")
\*               .set_index("Date"); the index is written first by to_csv
load_station(file) ==
    Table(<<"Date">> \o SelectSeq(file.columns, LAMBDA c : c # "Date"),
          SortByDate(file.rows))

\* DatetimeIndex.dayofyear of a day number (years of 365 days)
dayofyear(date) == ((date - 1) % 365) + 1

\* np.sin(2 pi doy / 365) and np.cos(2 pi doy / 365), kept as codes of the
\* angle: distinct days of the year give distinct feature values
doy_sin(doy) == 1000 + doy

doy_cos(doy) == 2000 + doy

\* add_time_features
add_time_features(df) ==
    LET doy  == [i \in 1..Len(df.rows) |-> dayofyear(df.rows[i]["Date"])]
        df1  == Assign(df, "doy", doy)
        df2  == Assign(df1, "doy_sin", [i \in 1..Len(doy) |-> doy_sin(doy[i])])
    IN Assign(df2, "doy_cos", [i \in 1..Len(doy) |-> doy_cos(doy[i])])

\* the integer square root (the rounded square root of the scaler)
Isqrt(x, hi) == CHOOSE r \in 0..hi : r * r <= x /\ x < (r + 1) * (r + 1)

Abs(x) == IF x < 0 THEN 0 - x ELSE x

\* StandardScaler.fit on one column, NaN ignored: the column's count n, sum
\* (mean_ = sum / n) and scale_ = sN / sD, the standard deviation, or 1 when
\* the deviation is 0.  dev = n * (x - mean_) keeps the arithmetic exact.
FitColumn(xs) ==
    LET obs  == SelectSeq(xs, notna)
        n    == Len(obs)
        sum  == SumSeq(obs)
        devs == [i \in 1..n |-> n * obs[i] - sum]
        sq   == SumSeq([i \in 1..n |-> devs[i] * devs[i]])
        top  == SumSeq([i \in 1..n |-> Abs(devs[i])])
        root == Isqrt(n * sq, n * top)
    IN [n |-> n, sum |-> sum,
        sN |-> IF root = 0 THEN 1 ELSE root,
        sD |-> IF root = 0 THEN 1 ELSE n * n]

\* scaler.fit on the columns met_vars + ["PPM3"], in that order
Fit(df, cols) == [j \in 1..Len(cols) |-> FitColumn(Column(df, cols[j]))]

\* scaler.transform of one value, (x - mean_) / scale_, as a fraction <<p, q>>
Scale(par, x) == <<(par.n * x - par.sum) * par.sD, par.n * par.sN>>

\* scaler.inverse_transform of one value, y * scale_ + mean_
Unscale(par, y) ==
    (y[1] * par.sN * par.n + par.sum * y[2] * par.sD)
        \div (y[2] * par.sD * par.n)

\* the distinct values of a sequence
Distinct(xs) ==
    LET firsts == SelectSeq([i \in 1..Len(xs) |-> i],
                    LAMBDA i : \A j \in 1..(i - 1) : xs[j] # xs[i])
    IN [k \in 1..Len(firsts) |-> xs[firsts[k]]]

\* What a fitted IterativeImputer holds for the target: the observed scaled
\* targets its regressor was trained on.  A forest's prediction lies among
\* the targets it has seen.
FitImputer(scaled) == Distinct(SelectSeq(scaled, LAMBDA y : y # <<>>))

\* the prediction for a missing target: the draw of the forest (its
\* random_state when that is fixed) selects among the targets seen
Predict(imp, draw) == imp[(draw % Len(imp)) + 1]

----------------------------------------------------------------------------
(* DataImputer: configuration, impute_with_rf, process_single_file *)

\* A key of the "imputation" section of config.json: present and well formed,
\* absent, or present with a value the consumer cannot use (a hyperparameter
\* the estimator does not have, a variable that is no column, a pool size that
\* is no positive integer).
Key(state, value) == [state |-> state, value |-> value]

\* random_state of the forest when the configuration does not fix it
NoSeed == -1

ConfigKeys == {"met_vars", "time_vars", "random_forest", "imputer", "cores"}

\* the result of impute_with_rf or an exception raised inside it
\* (imp: the imputer the call leaves fitted in its process)
Imputed(out, imp) == [exc |-> "none", out |-> out, imp |-> imp]

Failed(exc, imp) == [exc |-> exc, out |-> Table(<<>>, <<>>), imp |-> imp]

\* an inverse transform that reads the first scaler column instead of the last
UnscaleTargetFirst(scaler, y) == Unscale(scaler[1], y)

\* lines 107-111: the scaled target goes into the last column of the
\* zero-padded matrix and inverse_transform(back)[:, -1] is kept
UnscaleTarget(scaler, y) == Unscale(scaler[Len(scaler)], y)

\* an imputer fitted once per worker process and reused for later files
ImputerCached(kept, fresh) == IF kept # <<>> THEN kept ELSE fresh

\* line 101-104: a new IterativeImputer is fitted on every call
ImputerFor(kept, fresh) == fresh

\* impute_with_rf(df); kept is the imputer the worker fitted last, draw the
\* randomness of the forest
impute_with_rf(cfg, kept, df, draw) ==
    LET met    == cfg.met_vars.value
        feats  == met \o cfg.time_vars.value \o <<"PPM3">>
        scaled == met \o <<"PPM3">>
    IN IF cfg.met_vars.state # "ok" \/ cfg.time_vars.state # "ok"
       THEN Failed("KeyError", kept)
       ELSE IF \E j \in 1..Len(feats) :
                  feats[j] = "Date" \/ ~HasColumn(df, feats[j])
       THEN Failed("KeyError", kept)       \* line 94: df[feats]
       ELSE IF Len(df.rows) = 0
       THEN Failed("ValueError", kept)     \* line 98: nothing to fit the scaler on
       ELSE IF cfg.random_forest.state # "ok" \/ cfg.imputer.state # "ok"
       THEN Failed("TypeError", kept)      \* lines 101-103: unexpected argument
       ELSE IF \E j \in 1..Len(feats) :
                  \A i \in 1..Len(df.rows) : isna(df.rows[i][feats[j]])
       THEN Failed("IndexError", kept)     \* line 108: the empty feature is dropped
       ELSE LET scaler == Fit(df, scaled)
                target == scaler[Len(scaler)]
                ppm3   == Column(df, "PPM3")
                X      == [i \in 1..Len(ppm3) |->
                             IF isna(ppm3[i]) THEN <<>>
                             ELSE Scale(target, ppm3[i])]
                imp    == ImputerFor(kept, FitImputer(X))
                filled == [i \in 1..Len(X) |->
                             IF X[i] = <<>> THEN Predict(imp, draw) ELSE X[i]]
            IN Imputed(Assign(df, "PPM3_imputed",
                   [i \in 1..Len(filled) |-> UnscaleTarget(scaler, filled[i])]),
                   imp)

\* what process_single_file hands back: a status line, or an exception that
\* leaves the function
Status(ok, name, out_name, r) ==
    [kind |-> "return", ok |-> ok, name |-> name, out_name |-> out_name,
     out |-> r.out, exc |-> r.exc, imp |-> r.imp]

Escapes(name, r) ==
    [kind |-> "raise", ok |-> FALSE, name |-> name, out_name |-> <<>>,
     out |-> r.out, exc |-> r.exc, imp |-> r.imp]

\* the steps of process_single_file inside its try block
ProcessSteps(cfg, kept, name, file, draw) ==
    IF ~HasColumn(file, "Date")
    THEN Failed("ValueError", kept)        \* line 80: parse_dates=["Date"]
    ELSE impute_with_rf(cfg, kept,
             add_time_features(load_station(file)), draw)

\* line 85: the columns are assigned on df.copy(); df is left as it was
ArgAfterTimeFeatures(df) == df

\* lines 94 and 113: X = df[feats].copy() is scaled, out = df.copy() gets the
\* new column; df is left as it was
ArgAfterImpute(cfg, kept, df, draw) == df

\* df0 and df1 of process_single_file after the calls that were given them
LocalFrames(cfg, kept, file, draw) ==
    IF ~HasColumn(file, "Date") THEN <<>>
    ELSE LET df0 == load_station(file)
             df1 == add_time_features(df0)
         IN <<ArgAfterTimeFeatures(df0), ArgAfterImpute(cfg, kept, df1, draw)>>

\* process_single_file without its except clause
process_without_except(cfg, kept, name, file, draw) ==
    LET r == ProcessSteps(cfg, kept, name, file, draw)
    IN IF r.exc = "none" THEN Status(TRUE, name, OutName(name), r)
       ELSE Escapes(name, r)

\* process_single_file
process_single_file(cfg, kept, name, file, draw) ==
    LET r == ProcessSteps(cfg, kept, name, file, draw)
    IN IF r.exc = "none" THEN Status(TRUE, name, OutName(name), r)
       ELSE Status(FALSE, name, <<>>, r)

----------------------------------------------------------------------------
(* DataImputer.__init__ and run(): Pool(processes=cores).map *)

\* an exception leaves DataImputer.__init__ or run()
IRaise(exc) ==
    /\ ierror' = exc
    /\ ipc' = "raised"

\* DataImputer.__init__, lines 37-41: config["imputation"][key]
DataImputerInit ==
    /\ ipc = "new"
    /\ IF \E k \in ConfigKeys : config[k].state = "absent"
       THEN IRaise("KeyError")
       ELSE /\ ipc' = "ready"
            /\ UNCHANGED ierror
    /\ UNCHANGED <<config, input_dir, output_dir, files, taskqueue, worker,
                   chunk_results, completed, results, log>>
    /\ UNCHANGED cvars

\* Pool.map's default chunksize: divmod(len(iterable), 4 * processes),
\* one more when there is a remainder
Chunksize(n, processes) ==
    (n \div (4 * processes)) + (IF n % (4 * processes) = 0 THEN 0 ELSE 1)

\* a chunking that forgets the short chunk left over at the end
ChunksWhole(tasks, size) ==
    LET n     == Len(tasks)
        count == IF size = 0 THEN 0 ELSE n \div size
    IN [k \in 1..count |-> SubSeq(tasks, (k - 1) * size + 1, k * size)]

\* the tasks of a map call, cut into chunks of chunksize consecutive tasks
Chunks(tasks, size) ==
    LET n     == Len(tasks)
        count == IF size = 0 THEN 0 ELSE (n + size - 1) \div size
    IN [k \in 1..count |->
          SubSeq(tasks, (k - 1) * size + 1,
                 IF k * size < n THEN k * size ELSE n)]

\* a pool that starts one process for every file of the batch
ProcessPerFile(cfg, n) == n

\* Pool(processes=n_cores): the number of worker processes of the pool
Processes(cfg, n) == cfg.cores.value

Idle == [chunk |-> 0, todo |-> <<>>, done |-> <<>>, imp |-> <<>>]

Pending == [state |-> "pending", statuses |-> <<>>]

\* run(), lines 141-150: the sorted csv files of the input directory are
\* handed to a pool of `cores` worker processes
RunStart ==
    /\ ipc = "ready"
    /\ LET found == SortedNames({n \in DOMAIN input_dir : MatchesCsv(n)})
           cores == Processes(config, Len(found))
           tasks == Chunks(found, Chunksize(Len(found), cores))
       IN /\ files' = found
          /\ IF config.cores.state # "ok"
             THEN \* Pool(processes=...) raises: no positive integer
                  /\ IRaise("ValueError")
                  /\ UNCHANGED <<taskqueue, worker, chunk_results>>
             ELSE /\ taskqueue' = [k \in 1..Len(tasks) |-> k]
                  /\ chunk_results' = [k \in 1..Len(tasks) |-> Pending]
                  /\ worker' = [w \in 1..cores |-> Idle]
                  /\ ipc' = "map"
                  /\ UNCHANGED ierror
    /\ UNCHANGED <<config, input_dir, output_dir, completed, results, log>>
    /\ UNCHANGED cvars

\* the chunks of the running map call
TaskChunks ==
    Chunks(files, Chunksize(Len(files), Processes(config, Len(files))))

\* an idle worker process takes the next chunk from the task queue
TakeChunk(w) ==
    /\ ipc = "map"
    /\ worker[w].chunk = 0
    /\ taskqueue # <<>>
    /\ worker' = [worker EXCEPT ![w].chunk = Head(taskqueue),
                                ![w].todo = TaskChunks[Head(taskqueue)],
                                ![w].done = <<>>]
    /\ taskqueue' = Tail(taskqueue)
    /\ UNCHANGED <<config, input_dir, output_dir, files, chunk_results,
                   completed, results, log, ierror, ipc>>
    /\ UNCHANGED cvars

\* the draws of the forest: its random_state when the configuration fixes
\* one, any draw otherwise
FreeDraws == {0, 1}

Draws(cfg) ==
    IF cfg.random_forest.state = "ok" /\ cfg.random_forest.value # NoSeed
    THEN {cfg.random_forest.value}
    ELSE FreeDraws

\* a write that empties the output directory before it saves the file
to_csv_fresh_dir(dir, out_name, out) == [n \in {out_name} |-> out]

\* df2.to_csv(out_fn): the file out_fn is created or replaced, the other
\* files of the directory stay
to_csv(dir, out_name, out) ==
    [n \in (DOMAIN dir) \cup {out_name} |->
        IF n = out_name THEN out ELSE dir[n]]

\* a worker process runs process_single_file on the next file of its chunk;
\* after the last file of the chunk it sends the chunk's statuses back.  A
\* file whose fit never ends keeps the worker in the call for ever.
ProcessSingleFile(w) ==
    /\ ipc = "map"
    /\ worker[w].chunk # 0
    /\ worker[w].todo # <<>>
    /\ LET fn == Head(worker[w].todo)
       IN /\ input_dir[fn].fit = "ends"
          /\ \E draw \in Draws(config) :
                LET r    == process_single_file(config, worker[w].imp, fn,
                                                input_dir[fn], draw)
                    done == Append(worker[w].done, [ok |-> r.ok, name |-> fn])
                    last == Len(worker[w].todo) = 1
                IN /\ completed' = Append(completed,
                          [name |-> fn, out_name |-> r.out_name, ok |-> r.ok,
                           frames |-> LocalFrames(config, worker[w].imp,
                                                  input_dir[fn], draw)])
                   /\ output_dir' =
                         IF r.ok
                         THEN to_csv(output_dir, r.out_name, r.out)
                         ELSE output_dir
                   /\ IF r.kind = "raise"
                      THEN \* the exception ends the chunk: its other files
                           \* are not processed
                           /\ chunk_results' =
                                 [chunk_results EXCEPT ![worker[w].chunk] =
                                     [state |-> "failed", statuses |-> <<>>]]
                           /\ worker' = [worker EXCEPT ![w] =
                                 [Idle EXCEPT !.imp = r.imp]]
                      ELSE IF last
                      THEN /\ chunk_results' =
                                 [chunk_results EXCEPT ![worker[w].chunk] =
                                     [state |-> "done", statuses |-> done]]
                           /\ worker' = [worker EXCEPT ![w] =
                                 [Idle EXCEPT !.imp = r.imp]]
                      ELSE /\ worker' = [worker EXCEPT
                                 ![w].todo = Tail(worker[w].todo),
                                 ![w].done = done,
                                 ![w].imp = r.imp]
                           /\ UNCHANGED chunk_results
    /\ UNCHANGED <<config, input_dir, files, taskqueue, results, log,
                   ierror, ipc>>
    /\ UNCHANGED cvars

\* a map that hands the statuses back in the order the tasks completed
map_as_completed(chunks, order) ==
    [i \in 1..Len(order) |-> [ok |-> order[i].ok, name |-> order[i].name]]

\* pool.map: the statuses of all chunks, in the order of submission
map_results(chunks, order) ==
    Flatten([k \in 1..Len(chunks) |-> chunks[k].statuses])

\* pool.map returns once every chunk has been answered, or raises the
\* exception of a failed chunk; run() then logs the statuses (lines 154-157)
MapReturn ==
    /\ ipc = "map"
    /\ \A k \in 1..Len(chunk_results) : chunk_results[k].state # "pending"
    /\ IF \E k \in 1..Len(chunk_results) : chunk_results[k].state = "failed"
       THEN /\ IRaise("Exception")
            /\ UNCHANGED <<results, log>>
       ELSE /\ results' = map_results(chunk_results, completed)
            /\ log' = map_results(chunk_results, completed)
            /\ ipc' = "done"
            /\ UNCHANGED ierror
    /\ UNCHANGED <<config, input_dir, output_dir, files, taskqueue, worker,
                   chunk_results, completed>>
    /\ UNCHANGED cvars

NextImputer ==
    \/ DataImputerInit
    \/ RunStart
    \/ \E w \in DOMAIN worker : TakeChunk(w)
    \/ \E w \in DOMAIN worker : ProcessSingleFile(w)
    \/ MapReturn

----------------------------------------------------------------------------
(* Inputs of the imputer *)

\* no CleanData is running
NoCleaning ==
    /\ mode = "none"
    /\ window = 0
    /\ min_valid = 0
    /\ samples_per_site = 0
    /\ sites_df = <<>>
    /\ category_df = <<>>
    /\ raw_df = <<>>
    /\ grouped = <<>>
    /\ valid_sites = <<>>
    /\ idx = 1
    /\ ts_full = <<>>
    /\ ts = <<>>
    /\ all_dfs = <<>>
    /\ result = Unset
    /\ error = "none"
    /\ pc = "absent"
    /\ csv = <<>>

\* a csv file of the input directory: its table, and whether the iterative
\* fit on it ends
File(columns, rows, fit) == [columns |-> columns, rows |-> rows, fit |-> fit]

\* a well-formed configuration: one meteorological variable, the two time
\* features, a forest with the given random_state, a pool of `cores` workers
GoodConfig(seed, cores) ==
    [met_vars      |-> Key("ok", <<"T">>),
     time_vars     |-> Key("ok", <<"doy_sin", "doy_cos">>),
     random_forest |-> Key("ok", seed),
     imputer       |-> Key("ok", 0),
     cores         |-> Key("ok", cores)]

\* the state in which DataImputer(config_path) starts, its configuration
\* loaded and its directories set up (lines 26-30)
StartImputer(cfg, dir) ==
    /\ NoCleaning
    /\ config = cfg
    /\ input_dir = dir
    /\ output_dir = <<>>
    /\ files = <<>>
    /\ taskqueue = <<>>
    /\ worker = <<>>
    /\ chunk_results = <<>>
    /\ completed = <<>>
    /\ results = <<>>
    /\ log = <<>>
    /\ ierror = "none"
    /\ ipc = "new"

\* a directory: the given names with the given files
Dir(names, contents) ==
    [n \in {names[i] : i \in 1..Len(names)} |->
        contents[CHOOSE i \in 1..Len(names) : names[i] = n]]

\* "<letter>.csv"
CsvName(letter) == <<letter>> \o Chars(".csv")

\* a site file with one missing target, and the same file without the
\* PPM3 column
GoodFile ==
    File(<<"Date", "T", "PPM3">>,
         <<[Date |-> 1, T |-> 0, PPM3 |-> 1],
           [Date |-> 2, T |-> 2, PPM3 |-> NaN],
           [Date |-> 3, T |-> 2, PPM3 |-> 4]>>, "ends")

NoTargetFile ==
    File(<<"Date", "T">>,
         <<[Date |-> 1, T |-> 0], [Date |-> 2, T |-> 2],
           [Date |-> 3, T |-> 2]>>, "ends")

\* a site file of one row
SmallFile ==
    File(<<"Date", "T", "PPM3">>, <<[Date |-> 1, T |-> 2, PPM3 |-> 1]>>,
         "ends")

\* bounds of the imputation specification
MaxRows == 2

MetValues == {NaN, 2}

TargetValues == {NaN, 1, 4}

\* the site files of MaxRows rows, in ascending Date order or in descending
\* order with a SiteId column, and the file without rows
SiteFiles ==
    {File(IF extra THEN <<"SiteId", "Date", "T", "PPM3">>
                   ELSE <<"Date", "T", "PPM3">>,
          [i \in 1..n |->
             LET date == IF extra THEN n + 1 - i ELSE i
             IN IF extra
                THEN [SiteId |-> 7, Date |-> date, T |-> met[i], PPM3 |-> tgt[i]]
                ELSE [Date |-> date, T |-> met[i], PPM3 |-> tgt[i]]],
          "ends") :
        n \in {MaxRows}, extra \in BOOLEAN,
        met \in [1..MaxRows -> MetValues], tgt \in [1..MaxRows -> TargetValues]}
    \cup {File(<<"Date", "T", "PPM3">>, <<>>, "ends")}

\* the files that share the batch, and the worker, with the file under study
Siblings ==
    {GoodFile,
     File(<<"Date", "T", "PPM3">>,
          <<[Date |-> 5, T |-> 1, PPM3 |-> 7],
            [Date |-> 4, T |-> 3, PPM3 |-> NaN]>>, "ends")}

Seeds == {NoSeed, 1}

InitImpute ==
    \E seed \in Seeds, cores \in {1, 2},
       file \in SiteFiles, sibling \in Siblings :
       StartImputer(GoodConfig(seed, cores),
                    Dir(<<CsvName("a"), CsvName("b")>>, <<file, sibling>>))

SpecImpute == InitImpute /\ [][NextImputer]_vars

----------------------------------------------------------------------------
(* Properties of the imputed files *)

ColumnSet(df) == {df.columns[i] : i \in 1..Len(df.columns)}

\* the tasks that ended with a success status
Succeeded == {i \in 1..Len(completed) : completed[i].ok}

\* every original column of every input row is found unchanged in the output
ColumnsCarried(in, out) ==
    /\ Len(out.rows) = Len(in.rows)
    /\ \A i \in 1..Len(in.rows) :
          \E j \in 1..Len(out.rows) :
             \A c \in ColumnSet(in) : out.rows[j][c] = in.rows[i][c]

\* C16: the file written for a successfully processed input has the columns
\* of the input plus exactly one more, PPM3_imputed, and carries every
\* original column unchanged
C16_SameSchemaPlusOne ==
    \A i \in Succeeded :
       LET in  == input_dir[completed[i].name]
           out == output_dir[completed[i].out_name]
       IN /\ ColumnSet(out) = ColumnSet(in) \cup {"PPM3_imputed"}
          /\ ColumnsCarried(in, out)

SeedFixed ==
    config.random_forest.state = "ok" /\ config.random_forest.value # NoSeed

----------------------------------------------------------------------------
(* Scenario C: a batch of five files, one of them without the PPM3 column *)

ScenarioNames ==
    <<CsvName("a"), CsvName("b"), CsvName("c"), CsvName("d"), CsvName("e")>>

ScenarioCores == {1, 2, 3}

InitScenarioC ==
    \E bad \in 1..5, cores \in ScenarioCores :
       StartImputer(GoodConfig(1, cores),
                    Dir(ScenarioNames,
                        [i \in 1..5 |->
                            IF i = bad THEN NoTargetFile ELSE GoodFile]))

SpecScenarioC == InitScenarioC /\ [][NextImputer]_vars

\* the input files that lack the PPM3 column
LackTarget == {n \in DOMAIN input_dir : ~HasColumn(input_dir[n], "PPM3")}

\* C13: no exception leaves process_single_file, so no chunk of the map call
\* fails and run() does not raise; a task fails exactly when its file lacks
\* PPM3, the failure is a status naming that file, and once the batch is over
\* its five files have 4 success statuses and 1 failure status and the output
\* directory holds exactly the 4 imputed files of the good inputs
C13_FailuresAreStatuses ==
    /\ ierror = "none"
    /\ \A k \in 1..Len(chunk_results) : chunk_results[k].state # "failed"
    /\ \A i \in 1..Len(completed) :
          completed[i].ok <=> completed[i].name \notin LackTarget
    /\ DOMAIN output_dir =
          {OutName(completed[i].name) : i \in Succeeded}
    /\ ipc = "done" =>
          /\ Len(results) = 5
          /\ {results[i].name : i \in 1..5} = DOMAIN input_dir
          /\ Cardinality({i \in 1..5 : results[i].ok}) = 4
          /\ \A i \in 1..5 :
                ~results[i].ok <=> results[i].name \in LackTarget
          /\ Cardinality(DOMAIN output_dir) = 4
          /\ DOMAIN output_dir =
                {OutName(n) : n \in (DOMAIN input_dir) \ LackTarget}

\* C13 witness: the batch is over, with a failure status among its results,
\* and files were processed after the failing one
C13_Witness ==
    /\ ipc = "done"
    /\ \E i \in 1..Len(results) : ~results[i].ok
    /\ ~completed[1].ok
    /\ Cardinality(DOMAIN output_dir) = 4

----------------------------------------------------------------------------
(* Batches: file names and configurations *)

\* the pieces file names are built from
Tokens == {"a", ".", ".csv", "_imputed"}

MaxTokens == 2

RECURSIVE Join(_)

Join(tokens) ==
    IF tokens = <<>> THEN <<>> ELSE Chars(Head(tokens)) \o Join(Tail(tokens))

\* the csv files a directory can hold: up to MaxTokens pieces, then ".csv"
NameSet ==
    {Join(t) \o Chars(".csv") :
        t \in UNION {[1..k -> Tokens] : k \in 1..MaxTokens}}

\* the configurations with at most one key absent or malformed
Configs(cores) ==
    {GoodConfig(1, cores)}
    \cup {[GoodConfig(1, cores) EXCEPT ![k].state = st] :
             k \in ConfigKeys, st \in {"absent", "malformed"}}

InitBatch ==
    \/ \E n1 \in NameSet, n2 \in NameSet :
          /\ NameLess(n1, n2)
          /\ StartImputer(GoodConfig(1, 2),
                Dir(<<n1, n2, <<"a">> >>, <<SmallFile, SmallFile, SmallFile>>))
    \/ \E cores \in {1, 2},
          f1 \in {GoodFile, NoTargetFile}, f2 \in {GoodFile, NoTargetFile} :
          \E cfg \in Configs(cores) :
             StartImputer(cfg, Dir(<<CsvName("a"), CsvName("b")>>, <<f1, f2>>))

SpecBatch == InitBatch /\ [][NextImputer]_vars

C15_DistinctOutputPaths ==
    /\ \A i \in 1..Len(completed) :
          completed[i].ok => completed[i].out_name = OutName(completed[i].name)
    /\ \A i, j \in 1..Len(completed) :
          (i # j /\ completed[i].ok /\ completed[j].ok) =>
              completed[i].out_name # completed[j].out_name
    /\ Cardinality(DOMAIN output_dir) = Cardinality(Succeeded)

\* C15 witness: two tasks have written their files, and one input name is
\* the other one up to its first dot
C15_Witness ==
    /\ Len(completed) = 2
    /\ completed[1].ok /\ completed[2].ok
    /\ OutNameFromStem(completed[1].name) = OutNameFromStem(completed[2].name)

\* some key of the configuration is absent or malformed
ConfigInvalid == \E k \in ConfigKeys : config[k].state # "ok"

\* C19: with a configuration key absent or malformed, no file is ever
\* processed and no per-file status is produced: DataImputer stops with an
\* exception before the batch starts
C19_ConfigErrorsAreFatal ==
    ConfigInvalid =>
        /\ completed = <<>>
        /\ results = <<>>
        /\ ipc \notin {"map", "done"}

----------------------------------------------------------------------------
(* A task that never ends *)

\* SmallFile with a fit that does not converge
EndlessFile == [SmallFile EXCEPT !.fit = "never_ends"]

Letters == <<"a", "b", "c", "d", "e", "f", "i", "m", "p">>

\* the sizes of the batches and of the pools
BatchSizes == {2, 5, 9}

PoolSizes == {1, 2}

\* a batch of n files; the file at position `endless`, if any, never ends
InitEndless ==
    \E n \in BatchSizes, cores \in PoolSizes :
       \E endless \in 0..n :
          StartImputer(GoodConfig(1, cores),
              Dir([i \in 1..n |-> CsvName(Letters[i])],
                  [i \in 1..n |->
                      IF i = endless THEN EndlessFile ELSE SmallFile]))

SpecEndless == InitEndless /\ [][NextImputer]_vars

\* a worker is inside process_single_file on a file whose fit never ends
InEndlessTask(w) ==
    /\ worker[w].todo # <<>>
    /\ input_dir[Head(worker[w].todo)].fit = "never_ends"

\* no process of the batch can take another step: the batch is over, or the
\* task queue is empty and every worker is idle or inside an endless task
PoolQuiet ==
    \/ ipc = "done"
    \/ /\ ipc = "map"
       /\ taskqueue = <<>>
       /\ \A w \in DOMAIN worker : worker[w].chunk = 0 \/ InEndlessTask(w)
       /\ \E w \in DOMAIN worker : InEndlessTask(w)

\* C20: when one file's task never ends, every other file of the batch is
\* still processed and its output written: once no process can take another
\* step, only the endless file is without its output
C20_OthersWrittenDespiteEndlessTask ==
    PoolQuiet =>
        \A n \in DOMAIN input_dir :
           input_dir[n].fit = "ends" => OutName(n) \in DOMAIN output_dir

----------------------------------------------------------------------------
(* The batch as a whole: run() and its pool.                               *)

\* every file of the input directory has a task that terminates
EveryTaskTerminates == \A n \in DOMAIN input_dir : input_dir[n].fit = "ends"

\* the csv files of the input directory
Discovered == {n \in DOMAIN input_dir : MatchesCsv(n)}

\* the status lines run() has logged for file n
LinesOf(n) == {i \in 1..Len(log) : log[i].name = n}

\* the tasks that have finished for file n
FinishedOf(n) == {i \in 1..Len(completed) : completed[i].name = n}

\* some process of the batch can take a step
CanStep ==
    \/ \E w \in DOMAIN worker : worker[w].chunk = 0 /\ taskqueue # <<>>
    \/ \E w \in DOMAIN worker : worker[w].todo # <<>>
    \/ \A k \in 1..Len(chunk_results) : chunk_results[k].state # "pending"

\* C21: when every per-file task terminates, run() is never stuck before it
\* returns (so it returns, the batch being finite), it returns only after
\* every task has finished, and it has then logged exactly one status line
\* for each discovered file, successful or failed
C21_RunReturnsOneStatusPerFile ==
    EveryTaskTerminates =>
        /\ ipc = "map" => CanStep
        /\ ipc = "done" =>
              /\ taskqueue = <<>>
              /\ \A w \in DOMAIN worker : worker[w].todo = <<>>
              /\ \A n \in Discovered :
                    /\ Cardinality(FinishedOf(n)) = 1
                    /\ Cardinality(LinesOf(n)) = 1
              /\ \A i \in 1..Len(log) : log[i].name \in Discovered
              /\ Len(log) = Cardinality(Discovered)

\* C21 witness: run() has returned from a batch whose last chunk is short
C21_Witness ==
    /\ EveryTaskTerminates
    /\ ipc = "done"
    /\ Len(files) = 5
    /\ Len(chunk_results) = 3
    /\ Len(log) = 5

\* the worker processes that are executing a per-file task
Executing == {w \in DOMAIN worker : worker[w].todo # <<>>}

\* the places file n is at: a finished task, a worker's chunk, a queued chunk
PlacesOf(n) ==
    LET chunks == TaskChunks
    IN Cardinality(FinishedOf(n))
       + Cardinality({w \in DOMAIN worker :
            \E i \in 1..Len(worker[w].todo) : worker[w].todo[i] = n})
       + Cardinality({q \in 1..Len(taskqueue) :
            \E i \in 1..Len(chunks[taskqueue[q]]) :
               chunks[taskqueue[q]][i] = n})

\* C22: at every moment of a batch at most `cores` per-file tasks execute at
\* the same time, and every discovered file is executed by exactly one task:
\* it is waiting in one chunk, or held by one worker, or finished once
C22_AtMostCoresTasksEachFileOnce ==
    ipc \in {"map", "done"} =>
        /\ Cardinality(Executing) <= config.cores.value
        /\ \A n \in Discovered : PlacesOf(n) = 1
        /\ \A i \in 1..Len(completed) : completed[i].name \in Discovered

\* C22 witness: three cores, three tasks executing, more files waiting
C22_Witness ==
    /\ ipc = "map"
    /\ config.cores.value = 3
    /\ Cardinality(Executing) = 3
    /\ taskqueue # <<>>
    /\ completed # <<>>

----------------------------------------------------------------------------
(* A batch run over an output directory that already holds files.          *)

\* as StartImputer, with the files the output directory holds already
StartImputerOver(cfg, dir, out) ==
    /\ NoCleaning
    /\ config = cfg
    /\ input_dir = dir
    /\ output_dir = out
    /\ files = <<>>
    /\ taskqueue = <<>>
    /\ worker = <<>>
    /\ chunk_results = <<>>
    /\ completed = <<>>
    /\ results = <<>>
    /\ log = <<>>
    /\ ierror = "none"
    /\ ipc = "new"

\* a file left in the output directory by something else
StaleFile == File(<<"Date">>, <<>>, "ends")

\* names the output directory may hold already: the output of b.csv from an
\* earlier run, and a file that is nobody's output
StaleNames == {OutName(CsvName("b")), CsvName("m")}

RerunNames == <<CsvName("a"), CsvName("b"), CsvName("c")>>

RerunCores == {1, 2}

\* three files, at most one of them without its target column
InitRerun ==
    \E bad \in 0..3, cores \in RerunCores, stale \in SUBSET StaleNames :
       StartImputerOver(GoodConfig(1, cores),
           Dir(RerunNames,
               [i \in 1..3 |-> IF i = bad THEN NoTargetFile ELSE SmallFile]),
           [n \in stale |-> StaleFile])

SpecRerun == InitRerun /\ [][NextImputer]_vars

\* the task that finished in this step, if one did
JustFinished == completed'[Len(completed')]

\* C30: a task returns a success status only when its output file has been
\* written; a task that returns a failure status has created no file; and a
\* task leaves every other file of the output directory as it was
C30_OutputWrittenBeforeSuccess ==
    [][IF Len(completed') = Len(completed) + 1
       THEN LET task == JustFinished
            IN /\ task.ok =>
                     /\ task.out_name = OutName(task.name)
                     /\ task.out_name \in DOMAIN output_dir'
                     /\ HasColumn(output_dir'[task.out_name], "PPM3_imputed")
               /\ ~task.ok => output_dir' = output_dir
               /\ DOMAIN output_dir' \subseteq
                     (DOMAIN output_dir) \cup {OutName(task.name)}
               /\ \A n \in DOMAIN output_dir :
                     n # OutName(task.name) =>
                        /\ n \in DOMAIN output_dir'
                        /\ output_dir'[n] = output_dir[n]
       ELSE output_dir' = output_dir]_vars

\* C30 witness: b.csv has failed and another file has succeeded; the stale
\* b_imputed.csv and the foreign file are still what they were
C30_Witness ==
    /\ \E i \in 1..Len(completed) :
          ~completed[i].ok /\ completed[i].name = CsvName("b")
    /\ \E i \in 1..Len(completed) : completed[i].ok
    /\ StaleNames \subseteq DOMAIN output_dir
    /\ \A n \in StaleNames : output_dir[n] = StaleFile
    /\ Cardinality(DOMAIN output_dir) >= 3

----------------------------------------------------------------------------
(* The frames handed to the components.                                    *)

\* a run of the cleaning stage, or a batch of the imputer
InitFrames == Init \/ InitScenarioC

NextFrames == Next \/ NextImputer

SpecFrames == InitFrames /\ [][NextFrames]_vars

\* the frames of a finished task are the loaded table and the table with its
\* time features, as they were when they were passed on
FramesKept(task) ==
    LET file == input_dir[task.name]
    IN HasColumn(file, "Date") =>
          LET df0 == load_station(file)
          IN task.frames = <<df0, add_time_features(df0)>>

----------------------------------------------------------------------------
(* More properties of remove_unrecoverable_nans.                           *)

\* C24: with min_valid >= 1 the earliest row of a non-empty retained series
\* is a grid row matched to a raw measurement whose PPM3 is present, in daily
\* mode too; so a retained row carries an identifier and the SiteId repair of
\* clean_station finds one
C24_EarliestRetainedIsObserved ==
    (Filtered /\ min_valid >= 1 /\ ts # <<>>) =>
        LET first == ts[1]
        IN /\ \A i \in 1..Len(ts) : first.Starting <= ts[i].Starting
           /\ \E j \in 1..Len(ts_full) : ts_full[j] = first
           /\ \E i \in 1..Len(GroupRows) :
                 /\ GroupRows[i].Starting = first.Starting
                 /\ notna(GroupRows[i].PPM3)
           /\ notna(first.PPM3)
           /\ notna(first.SiteId)
           /\ SiteIdsOf(ts) # <<>>

\* C24 witness: daily mode, the grid starts with a raw row whose PPM3 is
\* missing, rows were dropped and a row without PPM3 was kept after the first
C24_Witness ==
    /\ Filtered
    /\ mode = "daily"
    /\ min_valid >= 1
    /\ ts # <<>>
    /\ isna(ts_full[1].PPM3)
    /\ Len(ts) < Len(ts_full)
    /\ \E i \in 2..Len(ts) : isna(ts[i].PPM3)

\* C25: for min_valid > 1 the first min_valid - 1 grid rows of a site are
\* dropped whatever their values: the window of the k-th grid row holds at
\* most k observations
C25_LeadingRowsAlwaysDropped ==
    (Filtered /\ min_valid > 1) =>
        \A k \in 1..Len(ts_full) :
            k <= min_valid - 1 =>
                /\ ObservedIn(ts_full[k].Starting) <= k
                /\ ~IsRetained(ts_full[k].Starting)

\* C25 witness: min_valid = 3, the first two grid rows are observed and
\* dropped, later rows are kept
C25_Witness ==
    /\ Filtered
    /\ min_valid = 3
    /\ Len(ts_full) >= 3
    /\ ts_full[1].PPM3 > 0
    /\ ts_full[2].PPM3 > 0
    /\ ~IsRetained(ts_full[1].Starting)
    /\ ~IsRetained(ts_full[2].Starting)
    /\ ts # <<>>

\* grid rows a..b all lack PPM3
MissingRun(a, b) == \A i \in a..b : isna(ts_full[i].PPM3)

\* the observed rows among grid rows a..b
ObservedRows(a, b) == {i \in a..b : notna(ts_full[i].PPM3)}

\* C26: the density rule decides by the trailing count alone.  An observed
\* row with fewer than min_valid values in its window is dropped; after
\* window+1 or more consecutive missing grid steps the first min_valid-1
\* observed rows that follow are dropped; a missing row whose window holds at
\* least min_valid values passes the rule (and in hourly mode is retained)
C26_DensityDecidesByCountAlone ==
    Filtered =>
        LET passed    == DensityFilter(ts_full, window, min_valid)
            Passes(t) == \E i \in 1..Len(passed) : passed[i].Starting = t
            n         == Len(ts_full)
        IN /\ mode = "hourly" => ts = passed
           /\ \A j \in 1..n :
                 LET t == ts_full[j].Starting
                 IN /\ (notna(ts_full[j].PPM3) /\ ObservedIn(t) < min_valid) =>
                          ~Passes(t) /\ ~IsRetained(t)
                    /\ (isna(ts_full[j].PPM3) /\ ObservedIn(t) >= min_valid) =>
                          Passes(t) /\ (mode = "hourly" => IsRetained(t))
           /\ \A g \in 1..n :
                 (g - window >= 1 /\ MissingRun(g - window, g)) =>
                    \A k \in (g + 1)..n :
                       (/\ notna(ts_full[k].PPM3)
                        /\ Cardinality(ObservedRows(g + 1, k)) <= min_valid - 1) =>
                          ~Passes(ts_full[k].Starting)
                          /\ ~IsRetained(ts_full[k].Starting)

\* C26 witness: hourly mode, window 3, min_valid 2: a missing row is kept
\* behind two observations, and after four missing steps the first observed
\* row is dropped and the second is kept
C26_Witness ==
    /\ Filtered
    /\ mode = "hourly"
    /\ window = 3
    /\ min_valid = 2
    /\ Len(ts_full) = 8
    /\ notna(ts_full[2].PPM3)
    /\ MissingRun(3, 6)
    /\ IsRetained(ts_full[3].Starting)
    /\ notna(ts_full[7].PPM3)
    /\ ~IsRetained(ts_full[7].Starting)
    /\ IsRetained(ts_full[8].Starting)

\* the rows of the current grid that pass the density rule
DensityPassing == DensityFilter(ts_full, window, min_valid)

\* exact zeros among density-passing row i and the up to w such rows before it
ZerosAmongPassing(passed, i, w) ==
    Cardinality({j \in (IF i - w < 1 THEN 1 ELSE i - w)..i : passed[j].PPM3 = 0})

RetainedWith(mv) == remove_unrecoverable_nans("hourly", ts_full, window, mv)

\* C29: in hourly mode the retained set shrinks as min_valid grows: every row
\* retained with min_valid + 1 is retained with min_valid, for the same
\* series and window; with min_valid <= 0 every grid row is retained
C29_RetainedSetMonotoneInMinValid ==
    (Filtered /\ mode = "hourly") =>
        LET stricter == RetainedWith(min_valid + 1)
        IN /\ \A i \in 1..Len(stricter) :
                 \E k \in 1..Len(ts) : ts[k] = stricter[i]
           /\ min_valid <= 0 => ts = ts_full
           /\ \A m \in -1..0 : RetainedWith(m) = ts_full

\* C29 witness: hourly mode, a row retained with min_valid is lost with
\* min_valid + 1, and a row is retained with both
C29_Witness ==
    /\ Filtered
    /\ mode = "hourly"
    /\ min_valid >= 1
    /\ RetainedWith(min_valid + 1) # <<>>
    /\ Len(RetainedWith(min_valid + 1)) < Len(ts)
    /\ Len(ts) < Len(ts_full)

----------------------------------------------------------------------------
(* Negative readings.                                                      *)

IsNegative(v) == notna(v) /\ v < 0

NoNegative(rows) == \A i \in 1..Len(rows) : ~IsNegative(rows[i].PPM3)

\* the raw rows of a site that are not negative
NonNegativeRowsOf(site) ==
    SelectSeq(raw_df, LAMBDA r : r.SiteId = site /\ ~IsNegative(r.PPM3))

\* load_data has returned
Loaded == pc \in {"fill", "filter", "collect", "concat", "returned", "written"}

\* C28: the raw rows with PPM3 < 0 are removed, and the rows with missing or
\* non-negative PPM3 kept, before the rows of a site are counted and before
\* its grid is built (a timestamp with negative readings only is a gap of
\* the grid); no row of the cleaned dataset has a negative PPM3
C28_NegativeReadingsRemoved ==
    /\ pc # "load" =>
          category_df = SelectSeq(raw_df, LAMBDA r : ~IsNegative(r.PPM3))
    /\ Loaded =>
          /\ \A s \in DOMAIN grouped : grouped[s] = NonNegativeRowsOf(s)
          /\ \A k \in 1..Len(sites_df) :
                (\E i \in 1..Len(valid_sites) : valid_sites[i] = sites_df[k])
                   <=> Len(NonNegativeRowsOf(sites_df[k])) > samples_per_site
    /\ pc \in {"filter", "collect"} =>
          /\ NoNegative(ts_full)
          /\ NoNegative(ts)
          /\ \A j \in 1..Len(ts_full) :
                LET here == RawRowsOf(CurrentSite, ts_full[j].Starting)
                IN (\A i \in 1..Len(here) : IsNegative(here[i].PPM3)) =>
                      ts_full[j] = GridOnlyRow(ts_full[j].Starting)
    /\ \A k \in 1..Len(all_dfs) : NoNegative(all_dfs[k])
    /\ result.kind = "frame" => NoNegative(result.rows)

\* C28 witness: the returned dataset has a row without PPM3 at a timestamp
\* where the raw table had a negative reading of that site, and a zero row
C28_Witness ==
    /\ result.kind = "frame"
    /\ \E i \in 1..Len(result.rows) :
          /\ isna(result.rows[i].PPM3)
          /\ \E r \in 1..Len(raw_df) :
                /\ raw_df[r].SiteId = result.rows[i].SiteId
                /\ raw_df[r].Starting = result.rows[i].Starting
                /\ IsNegative(raw_df[r].PPM3)
    /\ \E r \in 1..Len(raw_df) : isna(raw_df[r].PPM3)

====
